---- MODULE Spec2Model ----
(***************************************************************************)
(* A model of the AI video summarization pipeline:                         *)
(*   summarizer.py      - summarize_transcription, refine_transcription    *)
(*   video_processor.py - extract_audio, capture_key_frames,               *)
(*                        is_supported_video                               *)
(*   transcriber.py     - transcribe_audio, format_timestamp               *)
(*   app.py             - the Streamlit script main(), one rerun per event *)
(*                                                                         *)
(* Texts that the code strips, splits or parses are sequences of tokens;   *)
(* JSON values are tagged records; a Python dict is a function from keys.  *)
(* Times are whole ticks, TicksPerSecond ticks to the second.              *)
(***************************************************************************)
EXTENDS Integers, Sequences, FiniteSets, TLC

VARIABLES
    mode,       \* "unit": a module function is applied to drawn inputs; "app": a Streamlit session
    env,        \* the process: which optional libraries imported, OPENAI_API_KEY
    files,      \* paths that exist on the file system
    tmpCount,   \* temporary names handed out so far by tempfile
    call,       \* unit mode: the last function application and its outcome
    session,    \* st.session_state
    widgets,    \* the widgets' values, kept by Streamlit across reruns
    pc,         \* app mode: position of the script within the current rerun
    event,      \* app mode: the user event that triggered the current rerun
    local,      \* app mode: main()'s local variables in the current rerun
    ui,         \* app mode: what the current rerun has rendered so far
    log,        \* app mode: the pipeline stages the current rerun has gone through
    reruns      \* app mode: number of reruns so far

vars == <<mode, env, files, tmpCount, call, session, widgets, pc, event, local, ui, log, reruns>>

(***************************************************************************)
(* Bounds and resolution.                                                  *)
(***************************************************************************)
MaxReruns == 3          \* user events per session
TicksPerEpsilon == 2    \* time resolution: ticks in the 0.01 s of capture_frame_at_timestamp
EpsilonDen == 100       \* 0.01 s = 1/100 s
MAX_FRAMES == 6         \* timestamps[:6]

TicksPerSecond == EpsilonDen * TicksPerEpsilon
Epsilon == TicksPerEpsilon

(***************************************************************************)
(* Generic helpers.                                                        *)
(***************************************************************************)
None == [none |-> TRUE]

Max2(a, b) == IF a >= b THEN a ELSE b
Min2(a, b) == IF a <= b THEN a ELSE b

\* Python int(x) of a time in ticks: whole seconds, truncated toward zero.
IntSeconds(t) == IF t >= 0 THEN t \div TicksPerSecond ELSE -((-t) \div TicksPerSecond)

IsWhitespace(tok) == tok \in {" ", "\n"}

RECURSIVE LStrip(_)
LStrip(s) == IF s # <<>> /\ IsWhitespace(Head(s)) THEN LStrip(Tail(s)) ELSE s

RECURSIVE RStrip(_)
RStrip(s) == IF s # <<>> /\ IsWhitespace(s[Len(s)]) THEN RStrip(SubSeq(s, 1, Len(s) - 1)) ELSE s

\* str.strip(): leading and trailing whitespace removed.
Strip(s) == RStrip(LStrip(s))

\* Outcomes of a function application; net counts the chat-completion requests issued.
Return(v, n) == [kind |-> "return", value |-> v, net |-> n]
Raise(exc, msg, n) == [kind |-> "raise", exc |-> exc, msg |-> msg, net |-> n]

\* "needle in text" for texts that are sequences of pieces.
Contains(text, needle) == \E i \in DOMAIN text : text[i] = needle

(***************************************************************************)
(* JSON values.                                                            *)
(***************************************************************************)
Str(s) == [t |-> "str", s |-> s]
Lst(l) == [t |-> "list", l |-> l]
Num(n) == [t |-> "num", n |-> n]
Obj(o) == [t |-> "obj", o |-> o]
Null == [t |-> "null"]
EmptyDict == [k \in {} |-> Null]

\* type(x).__name__ of a parsed JSON value.
PyTypeName(v) ==
    CASE v.t = "str" -> "str"
      [] v.t = "list" -> "list"
      [] v.t = "num" -> "int"
      [] v.t = "obj" -> "dict"
      [] v.t = "null" -> "NoneType"

\* dict.setdefault(k, d)
SetDefault(d, k, v) == IF k \in DOMAIN d THEN d ELSE d @@ (k :> v)
\* d[k] = v
SetItem(d, k, v) == [x \in (DOMAIN d) \cup {k} |-> IF x = k THEN v ELSE d[x]]

(***************************************************************************)
(* summarizer.py                                                           *)
(***************************************************************************)
Fence == "<fence>"       \* the markdown code fence: three backquotes
Unset == "<unset>"      \* os.environ.get returns None
ApiKeys == {Unset, "", "sk-test"}

\* The documents json.loads accepts among the texts the model may answer with,
\* each with the value it parses to.  Every other text is a JSONDecodeError.
DocFull == "{\"main_purpose\": \"p\", \"key_insights\": [\"i1\", \"i2\"], \"important_concepts\": [\"c1\"], \"structured_summary\": \"s\", \"keywords\": [\"k1\"], \"timestamped_highlights\": [{\"timestamp\": 1, \"title\": \"a\"}, {\"timestamp\": \"soon\", \"title\": \"b\"}, {\"timestamp\": \"2\", \"title\": \"c\"}, {\"title\": \"d\"}, {\"timestamp\": 9, \"title\": \"e\"}]}"
DocEmpty == "{}"
DocLegacy == "{\"summary\": \"old\", \"key_points\": [\"kp\"]}"
DocNullKeywords == "{\"main_purpose\": \"p\", \"structured_summary\": \"s\", \"keywords\": null}"
DocNullPurpose == "{\"main_purpose\": null}"
DocListSummary == "{\"main_purpose\": \"p\", \"structured_summary\": [\"s\"]}"
DocList == "[1, 2]"
DocNull == "null"
DocMany == "{\"timestamped_highlights\": [{\"timestamp\": 0}, {\"timestamp\": 1}, {\"timestamp\": null}, {\"timestamp\": 1}, {\"timestamp\": 2}, {\"timestamp\": 3}, {\"timestamp\": 4}, {\"timestamp\": 5}]}"
DocBadHighlights == "{\"timestamped_highlights\": [5]}"
DocNumberHighlights == "{\"timestamped_highlights\": 5}"
DocNoNumeric == "{\"timestamped_highlights\": [{\"timestamp\": \"soon\"}]}"
DocClean == "{\"main_purpose\": \"p\", \"keywords\": [\"k1\"], \"timestamped_highlights\": [{\"timestamp\": 1, \"title\": \"a\"}, {\"timestamp\": 3, \"title\": \"b\"}]}"

Hl(ts, title) == Obj(("timestamp" :> ts) @@ ("title" :> Str(title)))
HlTs(ts) == Obj("timestamp" :> ts)

JsonDocs ==
    (DocFull :> Obj(("main_purpose" :> Str("p"))
                    @@ ("key_insights" :> Lst(<<Str("i1"), Str("i2")>>))
                    @@ ("important_concepts" :> Lst(<<Str("c1")>>))
                    @@ ("structured_summary" :> Str("s"))
                    @@ ("keywords" :> Lst(<<Str("k1")>>))
                    @@ ("timestamped_highlights" :>
                            Lst(<<Hl(Num(1), "a"), Hl(Str("soon"), "b"), Hl(Str("2"), "c"),
                                  Obj("title" :> Str("d")), Hl(Num(9), "e")>>))))
    @@ (DocEmpty :> Obj(EmptyDict))
    @@ (DocLegacy :> Obj(("summary" :> Str("old")) @@ ("key_points" :> Lst(<<Str("kp")>>))))
    @@ (DocNullKeywords :> Obj(("main_purpose" :> Str("p")) @@ ("structured_summary" :> Str("s"))
                               @@ ("keywords" :> Null)))
    @@ (DocNullPurpose :> Obj("main_purpose" :> Null))
    @@ (DocListSummary :> Obj(("main_purpose" :> Str("p"))
                              @@ ("structured_summary" :> Lst(<<Str("s")>>))))
    @@ (DocList :> Lst(<<Num(1), Num(2)>>))
    @@ (DocNull :> Null)
    @@ (DocMany :> Obj("timestamped_highlights" :>
                        Lst(<<HlTs(Num(0)), HlTs(Num(1)), HlTs(Null), HlTs(Num(1)),
                              HlTs(Num(2)), HlTs(Num(3)), HlTs(Num(4)), HlTs(Num(5))>>)))
    @@ (DocBadHighlights :> Obj("timestamped_highlights" :> Lst(<<Num(5)>>)))
    @@ (DocNumberHighlights :> Obj("timestamped_highlights" :> Num(5)))
    @@ (DocNoNumeric :> Obj("timestamped_highlights" :> Lst(<<HlTs(Str("soon"))>>)))
    @@ (DocClean :> Obj(("main_purpose" :> Str("p"))
                        @@ ("keywords" :> Lst(<<Str("k1")>>))
                        @@ ("timestamped_highlights" :> Lst(<<Hl(Num(1), "a"), Hl(Num(3), "b")>>))))

\* A client factory that does not look at the credential.
GetClientErrorNoKeyCheck(e) ==
    IF ~e.openai
    THEN Raise("ImportError", <<"OpenAI package is required. Install with: pip install openai">>, 0)
    ELSE None

\* _get_client(): the failure it raises, or no failure.
GetClientError(e) ==
    IF ~e.openai
    THEN Raise("ImportError", <<"OpenAI package is required. Install with: pip install openai">>, 0)
    ELSE IF e.key \in {Unset, ""}
    THEN Raise("ValueError", <<"OPENAI_API_KEY environment variable is not set. Please set it with your OpenAI API key.">>, 0)
    ELSE None

\* response.choices[0].message.content of a reply of the chat-completion call:
\* the exception text when that expression raises.
ReplyError(reply) ==
    IF reply.r = "error" THEN reply.text
    ELSE IF reply.choices = <<>> THEN "list index out of range"
    ELSE IF ~reply.choices[1].hasContent THEN "'NoneType' object has no attribute 'strip'"
    ELSE ""

\* content.split(Fence)[1] of a content that starts with the fence: what lies
\* between the first fence and the next one (or the end).
RECURSIVE UpToFence(_)
UpToFence(s) ==
    IF s = <<>> \/ Head(s) = Fence THEN <<>> ELSE <<Head(s)>> \o UpToFence(Tail(s))

\* Lines 86-93: markdown code fence and language tag removed.
StripFence(content) ==
    IF content # <<>> /\ Head(content) = Fence
    THEN LET inner == UpToFence(Tail(content))
             untagged == IF inner # <<>> /\ Head(inner) \in {"json", "JSON"}
                         THEN Tail(inner) ELSE inner
         IN  Strip(untagged)
    ELSE content

\* Number of characters of a text given as a sequence of pieces; the fence
\* piece stands for three characters.
RECURSIVE TextLen(_)
TextLen(s) ==
    IF s = <<>> THEN 0
    ELSE (IF Head(s) = Fence THEN 3 ELSE Len(Head(s))) + TextLen(Tail(s))

\* JSONDecodeError's "line L column C (char N)" for the position that follows
\* the pieces in before: lineno counts the newlines before it, colno the
\* characters since the last of them.
ErrorPosition(before) ==
    LET newlines == {i \in DOMAIN before : before[i] = "\n"}
        last == IF newlines = {} THEN 0
                ELSE CHOOSE i \in newlines : \A j \in newlines : j <= i
    IN  "line " \o ToString(Cardinality(newlines) + 1)
        \o " column " \o ToString(TextLen(SubSeq(before, last + 1, Len(before))) + 1)
        \o " (char " \o ToString(TextLen(before)) \o ")"

\* json.loads: blanks skipped, one document decoded, blanks skipped, and the
\* end of the text required.  Among the pieces of the model's texts only the
\* documents of JsonDocs begin a JSON value.
JsonLoads(text) ==
    LET body == LStrip(text)
        lead == SubSeq(text, 1, Len(text) - Len(body))
    IN  IF body = <<>> \/ Head(body) \notin DOMAIN JsonDocs
        THEN [ok |-> FALSE, err |-> "Expecting value: " \o ErrorPosition(lead)]
        ELSE LET rest == LStrip(Tail(body))
                 upto == SubSeq(text, 1, Len(text) - Len(rest))
             IN  IF rest = <<>>
                 THEN [ok |-> TRUE, value |-> JsonDocs[Head(body)]]
                 ELSE [ok |-> FALSE, err |-> "Extra data: " \o ErrorPosition(upto)]

\* Defaults that leave an omitted list key null.
WithNullDefaults(d) ==
    SetDefault(SetDefault(SetDefault(SetDefault(SetDefault(SetDefault(d,
        "main_purpose", Str("")),
        "key_insights", Lst(<<>>)),
        "important_concepts", Lst(<<>>)),
        "structured_summary", Str("")),
        "keywords", Null),
        "timestamped_highlights", Lst(<<>>))

\* Lines 98-103.
WithDefaults(d) ==
    SetDefault(SetDefault(SetDefault(SetDefault(SetDefault(SetDefault(d,
        "main_purpose", Str("")),
        "key_insights", Lst(<<>>)),
        "important_concepts", Lst(<<>>)),
        "structured_summary", Str("")),
        "keywords", Lst(<<>>)),
        "timestamped_highlights", Lst(<<>>))

\* Line 107: result["main_purpose"] + "\n\n" + result["structured_summary"];
\* the TypeError text when the operands are not both strings, "" otherwise.
ConcatError(mp, ss) ==
    IF mp.t = "list" THEN "can only concatenate list (not \"str\") to list"
    ELSE IF mp.t # "str"
    THEN "unsupported operand type(s) for +: '" \o PyTypeName(mp) \o "' and 'str'"
    ELSE IF ss.t # "str"
    THEN "can only concatenate str (not \"" \o PyTypeName(ss) \o "\") to str"
    ELSE ""

\* Lines 113-121: the result returned when the answer is not JSON.
ParseFailureResult(err) ==
    ("summary" :> Str("Summary generation completed but parsing failed."))
    @@ ("key_points" :> Lst(<<>>))
    @@ ("keywords" :> Lst(<<>>))
    @@ ("topics" :> Lst(<<>>))
    @@ ("timestamped_highlights" :> Lst(<<>>))
    @@ ("_parse_error" :> Str(err))

\* An analyzer that swallows every failure into the degraded result.
AnalysisFailedRecovered(text) ==
    Return(("summary" :> Str("")) @@ ("_parse_error" :> Str(text)), 1)

\* Line 123.
AnalysisFailed(text) == Raise("RuntimeError", <<"OpenAI API error: ", text>>, 1)

\* Lines 95-111, for a parsed value.
BuildResult(value) ==
    IF value.t # "obj"
    THEN AnalysisFailed("'" \o PyTypeName(value) \o "' object has no attribute 'setdefault'")
    ELSE LET d == WithDefaults(value.o)
             cerr == ConcatError(d["main_purpose"], d["structured_summary"])
         IN  IF "summary" \notin DOMAIN d /\ cerr # ""
             THEN AnalysisFailed(cerr)
             ELSE LET d1 == IF "summary" \notin DOMAIN d
                            THEN SetItem(d, "summary",
                                     Str(d["main_purpose"].s \o "\n\n" \o d["structured_summary"].s))
                            ELSE d
                      d2 == IF "key_points" \notin DOMAIN d1
                            THEN SetItem(d1, "key_points", d1["key_insights"])
                            ELSE d1
                  IN  Return(d2, 1)

\* summarize_transcription(transcription, segments, model), given the process
\* environment and the reply of the one chat-completion request it issues.
summarize_transcription(e, reply) ==
    IF GetClientError(e) # None THEN GetClientError(e)
    ELSE IF ReplyError(reply) # "" THEN AnalysisFailed(ReplyError(reply))
    ELSE LET parsed == JsonLoads(StripFence(Strip(reply.choices[1].content)))
         IN  IF ~parsed.ok THEN Return(ParseFailureResult(parsed.err), 1)
             ELSE BuildResult(parsed.value)

\* A refiner whose fallback tidies the raw text instead of returning it as given.
RefineFallbackStripped(raw) == Strip(raw)

\* Line 172: the text returned when the request or the reply handling fails.
RefineFallback(raw) == raw

\* refine_transcription(raw_transcription, model)
refine_transcription(e, raw, reply) ==
    IF GetClientError(e) # None THEN GetClientError(e)
    ELSE IF ReplyError(reply) # "" THEN Return(RefineFallback(raw), 1)
    ELSE Return(Strip(reply.choices[1].content), 1)

\* Replies of the hosted model.
ApiError(text) == [r |-> "error", text |-> text]
NoChoices == [r |-> "ok", choices |-> <<>>]
NoContent == [r |-> "ok", choices |-> <<[hasContent |-> FALSE, content |-> <<>>]>>]
Answer(content) == [r |-> "ok", choices |-> <<[hasContent |-> TRUE, content |-> content]>>]

ApiErrors == {"Connection error.", "Rate limit reached", "Incorrect API key provided"}

(***************************************************************************)
(* video_processor.py                                                      *)
(*                                                                         *)
(* A path is [dir, name], name the final component as a sequence of        *)
(* characters.  The file system is a set of [path, content] entries, at    *)
(* most one per path.                                                      *)
(***************************************************************************)
UpperCase == <<"A", "B", "C", "D", "E", "F", "G", "H", "I", "J", "K", "L", "M", "N", "O", "P", "Q", "R", "S", "T", "U", "V", "W", "X", "Y", "Z">>
LowerCase == <<"a", "b", "c", "d", "e", "f", "g", "h", "i", "j", "k", "l", "m", "n", "o", "p", "q", "r", "s", "t", "u", "v", "w", "x", "y", "z">>

\* str.lower()
LowerChar(c) == IF \E i \in DOMAIN UpperCase : UpperCase[i] = c
                THEN LowerCase[CHOOSE i \in DOMAIN UpperCase : UpperCase[i] = c]
                ELSE c
Lower(s) == [i \in DOMAIN s |-> LowerChar(s[i])]

\* str.rfind("."), 1-based; 0 when there is no dot.
RFindDot(name) ==
    IF \E i \in DOMAIN name : name[i] = "."
    THEN CHOOSE i \in DOMAIN name : name[i] = "." /\ \A j \in DOMAIN name : name[j] = "." => j <= i
    ELSE 0

\* pathlib: Path(p).suffix, the final component's last dot-suffix; empty when
\* the name has no dot, starts with its only dot, or ends with the dot.
Suffix(path) ==
    LET name == path.name
        i == RFindDot(name)
    IN  IF 1 < i /\ i < Len(name) THEN SubSeq(name, i, Len(name)) ELSE <<>>

\* pathlib: Path(p).stem
Stem(path) ==
    LET name == path.name
        i == RFindDot(name)
    IN  IF 1 < i /\ i < Len(name) THEN SubSeq(name, 1, i - 1) ELSE name

SUPPORTED_VIDEO_FORMATS == {
    <<".", "m", "p", "4">>, <<".", "a", "v", "i">>, <<".", "m", "k", "v">>, <<".", "m", "o", "v">>, <<".", "w", "e", "b", "m">>,
    <<".", "w", "m", "v">>, <<".", "f", "l", "v">>, <<".", "m", "4", "v">>, <<".", "m", "p", "g">>, <<".", "m", "p", "e", "g">>,
    <<".", "3", "g", "p">>, <<".", "3", "g", "2">>, <<".", "o", "g", "v">>, <<".", "m", "t", "s">>, <<".", "m", "2", "t", "s">>,
    <<".", "v", "o", "b">>, <<".", "t", "s">>, <<".", "d", "i", "v", "x">>, <<".", "f", "4", "v">>, <<".", "a", "s", "f">>}

is_supported_video(filename) == Lower(Suffix(filename)) \in SUPPORTED_VIDEO_FORMATS

Path(dir, name) == [dir |-> dir, name |-> name]

\* The path as the text an f-string renders: directory, separator, final component.
PathText(p) == <<p.dir, "/">> \o p.name
File(path, content) == [path |-> path, content |-> content]

Exists(fs, path) == \E f \in fs : f.path = path
ContentOf(fs, path) == (CHOOSE f \in fs : f.path = path).content
WriteFile(fs, path, content) == {f \in fs : f.path # path} \cup {File(path, content)}
Unlink(fs, path) == {f \in fs : f.path # path}

\* What a video container holds: its duration in ticks, whether it can be
\* opened, whether it has an audio track, and the times at which decoding a
\* frame fails.
Video(duration, openable, audio, bad) ==
    [k |-> "video", duration |-> duration, openable |-> openable, audio |-> audio, bad |-> bad]
EmptyFile == [k |-> "empty"]
Directory == [k |-> "dir"]

\* tempfile: the n-th temporary name, with the given suffix.
TempName(n, suffix) == Path("/tmp", <<"t", "m", "p", ToString(n)>> \o suffix)
TempDir(n) == "/tmp/tmp" \o ToString(n)

\* The outcome of writing the audio track (lines 49-51): the error text, or "".
DecodeError(video, io) ==
    IF ~video.openable THEN "MoviePy error: failed to read the first frame of video file"
    ELSE IF ~video.audio THEN "'NoneType' object has no attribute 'write_audiofile'"
    ELSE IF io # "ok" THEN io
    ELSE ""

\* A failure path that leaves the temporary output behind.
ExtractNoCleanup(fs, audio_path) == fs

\* Lines 54-55: the temporary output removed when decoding failed.
ExtractCleanup(fs, audio_path) == IF Exists(fs, audio_path) THEN Unlink(fs, audio_path) ELSE fs

\* extract_audio(video_path, output_format): the outcome, the file system
\* after it, the temporary names it has taken.  io is what writing the audio
\* file does when the container is sound.
extract_audio(e, fs, n, video_path, output_format, io) ==
    IF ~e.moviepy
    THEN [out |-> Raise("ImportError", <<"MoviePy is required for audio extraction. Install with: pip install moviepy">>, 0),
          files |-> fs, tmp |-> n, created |-> {}]
    ELSE IF ~Exists(fs, video_path)
    THEN [out |-> Raise("FileNotFoundError", <<"Video file not found: ">> \o PathText(video_path), 0),
          files |-> fs, tmp |-> n, created |-> {}]
    ELSE LET audio_path == TempName(n + 1, <<".">> \o output_format)
             fs1 == WriteFile(fs, audio_path, EmptyFile)
             video == ContentOf(fs, video_path)
             err == DecodeError(video, io)
         IN  IF err # ""
             THEN [out |-> Raise("RuntimeError", <<"Failed to extract audio: ", err>>, 0),
                   files |-> ExtractCleanup(fs1, audio_path), tmp |-> n + 1, created |-> {audio_path}]
             ELSE [out |-> Return(audio_path, 0),
                   files |-> WriteFile(fs1, audio_path, [k |-> "audio", of |-> video_path]),
                   tmp |-> n + 1, created |-> {audio_path}]

\* Line 79: the time the decoder is asked for.
ClampTimestamp(timestamp_seconds, duration) ==
    Min2(Max2(0, timestamp_seconds), duration - Epsilon)

NoFrame == [ok |-> FALSE, asked |-> <<>>]

\* A capture that refuses timestamps outside the video instead of clamping.
CaptureFrameRangeChecked(e, fs, video_path, timestamp_seconds) ==
    IF ~e.moviepy THEN NoFrame
    ELSE IF ~Exists(fs, video_path) THEN NoFrame
    ELSE LET video == ContentOf(fs, video_path)
         IN  IF video.k # "video" \/ ~video.openable THEN NoFrame
             ELSE IF timestamp_seconds < 0 \/ timestamp_seconds >= video.duration THEN NoFrame
             ELSE IF timestamp_seconds \in video.bad
                  THEN [ok |-> FALSE, asked |-> <<timestamp_seconds>>]
                  ELSE [ok |-> TRUE, asked |-> <<timestamp_seconds>>, at |-> timestamp_seconds,
                        of |-> video_path]

\* capture_frame_at_timestamp(video_path, timestamp_seconds): a frame, or no
\* frame; asked lists the times the decoder was asked for.
capture_frame_at_timestamp(e, fs, video_path, timestamp_seconds) ==
    IF ~e.moviepy THEN NoFrame
    ELSE IF ~Exists(fs, video_path) THEN NoFrame
    ELSE LET video == ContentOf(fs, video_path)
         IN  IF video.k # "video" \/ ~video.openable THEN NoFrame
             ELSE LET timestamp == ClampTimestamp(timestamp_seconds, video.duration)
                  IN  IF timestamp \in video.bad
                      THEN [ok |-> FALSE, asked |-> <<timestamp>>]
                      ELSE [ok |-> TRUE, asked |-> <<timestamp>>, at |-> timestamp, of |-> video_path]

\* A file name made of the whole second alone.
FramePathWithoutIndex(output_dir, i, ts) ==
    Path(output_dir, <<"frame_", ToString(IntSeconds(ts)), "s", ".", "p", "n", "g">>)

\* Line 110: frame_{i}_{int(ts)}s.png in the output directory, i counted from 0.
FramePath(output_dir, i, ts) ==
    Path(output_dir, <<"frame_", ToString(i), "_", ToString(IntSeconds(ts)), "s", ".", "p", "n", "g">>)

\* A loop that gives up at the first timestamp without a frame.
RECURSIVE CaptureLoopStopsAtFailure(_, _, _, _, _, _)
CaptureLoopStopsAtFailure(e, fs, video_path, timestamps, output_dir, k) ==
    IF k > Len(timestamps) THEN <<>>
    ELSE LET ts == timestamps[k]
             frame == capture_frame_at_timestamp(e, fs, video_path, ts)
         IN  IF frame.ok
             THEN <<[ts |-> ts, img_path |-> FramePath(output_dir, k - 1, ts), at |-> frame.at]>>
                  \o CaptureLoopStopsAtFailure(e, fs, video_path, timestamps, output_dir, k + 1)
             ELSE <<>>

\* Lines 106-112, from the k-th timestamp (1-based) on: the (ts, img_path) pairs.
RECURSIVE CaptureLoop(_, _, _, _, _, _)
CaptureLoop(e, fs, video_path, timestamps, output_dir, k) ==
    IF k > Len(timestamps) THEN <<>>
    ELSE LET ts == timestamps[k]
             frame == capture_frame_at_timestamp(e, fs, video_path, ts)
             rest == CaptureLoop(e, fs, video_path, timestamps, output_dir, k + 1)
         IN  IF frame.ok
             THEN <<[ts |-> ts, img_path |-> FramePath(output_dir, k - 1, ts), at |-> frame.at]>> \o rest
             ELSE rest

RECURSIVE SaveAll(_, _)
SaveAll(fs, results) ==
    IF results = <<>> THEN fs
    ELSE SaveAll(WriteFile(fs, Head(results).img_path,
                           [k |-> "png", at |-> Head(results).at]), Tail(results))

\* capture_key_frames(video_path, timestamps, output_dir); output_dir "" is None.
capture_key_frames(e, fs, n, video_path, timestamps, output_dir) ==
    LET dir == IF output_dir = "" THEN TempDir(n + 1) ELSE output_dir
        n1 == IF output_dir = "" THEN n + 1 ELSE n
        fs1 == IF Exists(fs, Path(dir, <<>>)) THEN fs ELSE WriteFile(fs, Path(dir, <<>>), Directory)
        results == CaptureLoop(e, fs1, video_path, timestamps, dir, 1)
    IN  [out |-> Return(results, 0), files |-> SaveAll(fs1, results), tmp |-> n1]

(***************************************************************************)
(* transcriber.py                                                          *)
(***************************************************************************)
Segment(start, end, text) == [start |-> start, end |-> end, text |-> text]

\* Lines 50-58: text and segment texts stripped, order kept.  Line 53 reads
\* result.get("segments", []): a result may carry no segments field.
TranscriptionResult(result) ==
    LET segs == IF "segments" \in DOMAIN result THEN result.segments ELSE <<>>
    IN  [full_text |-> Strip(result.text),
         segments |-> [i \in DOMAIN segs |->
                          Segment(segs[i].start, segs[i].end, Strip(segs[i].text))]]

\* transcribe_audio(audio_path, model_size, language), given what the speech
\* model does: it fails to load or to run (an error text), or it yields a result.
transcribe_audio(e, fs, audio_path, asr) ==
    IF ~e.whisper
    THEN Raise("ImportError", <<"OpenAI Whisper is required. Install with: pip install openai-whisper">>, 0)
    ELSE IF ~Exists(fs, audio_path)
    THEN Raise("FileNotFoundError", <<"Audio file not found: ">> \o PathText(audio_path), 0)
    ELSE IF asr.r = "error" THEN Raise("RuntimeError", <<asr.text>>, 0)
    ELSE Return(TranscriptionResult(asr.result), 0)

\* The decimal digits, and str(n) for n >= 0 as its characters.
Digits == <<"0", "1", "2", "3", "4", "5", "6", "7", "8", "9">>

RECURSIVE DecimalDigits(_)
DecimalDigits(n) ==
    IF n < 10 THEN <<Digits[n + 1]>>
    ELSE DecimalDigits(n \div 10) \o <<Digits[(n % 10) + 1]>>

\* The format specification 02d: zero-padded to width two, the sign counted.
Format02d(n) ==
    IF n < 0 THEN <<"-">> \o DecimalDigits(0 - n)
    ELSE IF n < 10 THEN <<"0">> \o DecimalDigits(n)
    ELSE DecimalDigits(n)

\* format_timestamp(seconds), the seconds given in ticks; // and % floor.
format_timestamp(t) ==
    LET m == t \div (60 * TicksPerSecond)
        s == (t % (60 * TicksPerSecond)) \div TicksPerSecond
    IN  Format02d(m) \o <<":">> \o Format02d(s)

\* A long format that always writes the hour field.
FormatTimestampLongAlwaysHours(t) ==
    LET h == t \div (3600 * TicksPerSecond)
        m == (t % (3600 * TicksPerSecond)) \div (60 * TicksPerSecond)
        s == (t % (60 * TicksPerSecond)) \div TicksPerSecond
    IN  Format02d(h) \o <<":">> \o Format02d(m) \o <<":">> \o Format02d(s)

\* format_timestamp_long(seconds), the seconds given in ticks.
format_timestamp_long(t) ==
    LET h == t \div (3600 * TicksPerSecond)
        m == (t % (3600 * TicksPerSecond)) \div (60 * TicksPerSecond)
        s == (t % (60 * TicksPerSecond)) \div TicksPerSecond
    IN  IF h > 0
        THEN Format02d(h) \o <<":">> \o Format02d(m) \o <<":">> \o Format02d(s)
        ELSE Format02d(m) \o <<":">> \o Format02d(s)

(***************************************************************************)
(* Inputs.                                                                 *)
(***************************************************************************)
Envs == [openai : BOOLEAN, key : ApiKeys, moviepy : BOOLEAN, whisper : BOOLEAN]

DocTexts == DOMAIN JsonDocs
NotJson == "Sorry, I cannot summarize this."

\* The ways the model lays out its answer around a text.
Layouts == {"plain", "padded", "fenced_json", "fenced_JSON", "fenced", "fenced_open",
            "fenced_trailer", "prose", "prose_fenced", "fence_space_tag", "trailer", "twice"}

Layout(kind, text) ==
    CASE kind = "plain" -> <<text>>
      [] kind = "padded" -> <<" ", text, "\n">>
      [] kind = "fenced_json" -> <<Fence, "json", "\n", text, "\n", Fence>>
      [] kind = "fenced_JSON" -> <<Fence, "JSON", text, Fence>>
      [] kind = "fenced" -> <<Fence, "\n", text, "\n", Fence>>
      [] kind = "fenced_open" -> <<Fence, "json", "\n", text>>
      [] kind = "fenced_trailer" -> <<Fence, "json", text, Fence, "\n", "Hope this helps.">>
      [] kind = "prose" -> <<"Sure:", " ", text>>
      [] kind = "prose_fenced" -> <<"Here you go:", "\n", Fence, "json", text, Fence>>
      [] kind = "fence_space_tag" -> <<Fence, " ", "json", "\n", text, Fence>>
      [] kind = "trailer" -> <<text, "\n", "Hope this helps.">>
      [] kind = "twice" -> <<text, text>>

Failures == {ApiError(t) : t \in ApiErrors} \cup {NoChoices, NoContent}

RawTexts == {<<>>, <<"um", " ", "hello">>, <<" ", "hello", " ", "world", "\n">>}
RefineReplies == Failures \cup {Answer(<<" ", "Hello", " ", "world.", "\n">>), Answer(<<>>)}

\* Videos on disk in unit mode; MissingVideo is a path with no file.

GoodVideo == Path("/videos", <<"g", "o", "o", "d", ".", "m", "p", "4">>)
FlakyVideo == Path("/videos", <<"f", "l", "a", "k", "y", ".", "M", "K", "V">>)
SilentVideo == Path("/videos", <<"s", "i", "l", "e", "n", "t", ".", "w", "e", "b", "m">>)
BrokenVideo == Path("/videos", <<"b", "r", "o", "k", "e", "n", ".", "a", "v", "i">>)
MissingVideo == Path("/videos", <<"m", "i", "s", "s", "i", "n", "g", ".", "m", "p", "4">>)
TinyVideo == Path("/videos", <<"t", "i", "n", "y", ".", "m", "p", "4">>)

Duration == 2 * TicksPerSecond
\* A clip shorter than the margin kept before the end of a video.
TinyDuration == Epsilon \div 2
\* Requested times: before the start, the start, inside, the last tick, the end, far past the end.
Times == {-TicksPerSecond, 0, TicksPerSecond \div 2, Duration - 1, Duration, 5 * TicksPerSecond}

UnitFiles ==
    {File(GoodVideo, Video(Duration, TRUE, TRUE, {})),
     File(FlakyVideo, Video(Duration, TRUE, TRUE, {0, Duration - Epsilon})),
     File(SilentVideo, Video(Duration, TRUE, FALSE, {TicksPerSecond \div 2})),
     File(BrokenVideo, Video(Duration, FALSE, TRUE, {})),
     File(TinyVideo, Video(TinyDuration, TRUE, TRUE, {}))}
UnitPaths == {GoodVideo, FlakyVideo, SilentVideo, BrokenVideo, MissingVideo, TinyVideo}

MaxTimestamps == 2
TimestampLists == UNION {[1..n -> Times] : n \in 0..MaxTimestamps}

WriteOutcomes == {"ok", "[Errno 28] No space left on device"}

\* Times to format: whole seconds around the minute and hour marks, a time
\* between two seconds and a negative one.
WholeSeconds == {0, 5, 59, 60, 65, 599, 600, 3599, 3600, 3661, 5999, 6000, 35999, 36000, 86399, 360000}
FormatTimes ==
    {s * TicksPerSecond : s \in WholeSeconds}
        \cup {65 * TicksPerSecond + TicksPerSecond \div 2, 0 - 5 * TicksPerSecond}

AsrResults ==
    {[r |-> "error", text |-> "CUDA out of memory"],
     [r |-> "ok", result |-> [text |-> <<" ", "hello", " ", "world">>,
                              segments |-> <<Segment(0, 95 * TicksPerEpsilon * 10, <<" ", "hello">>),
                                             Segment(95 * TicksPerEpsilon * 10, 12 * TicksPerSecond,
                                                     <<" ", "world">>)>>]],
     [r |-> "ok", result |-> [text |-> <<>>, segments |-> <<>>]],
     [r |-> "ok", result |-> [text |-> <<"hi", "\n">>]]}

(***************************************************************************)
(* State.                                                                  *)
(***************************************************************************)
NoCall == [fn |-> "none"]
NoUrl == <<>>
NoName == [set |-> FALSE, v |-> <<>>]

\* main()'s locals at the top of a rerun; results_before remembers what the
\* session held when the rerun began.
FreshLocal(prev) ==
    [video_path |-> None, info |-> 0, audio_path |-> None, full_text |-> <<>>, segments |-> <<>>,
     summary_data |-> EmptyDict, refined_text |-> <<>>, frames_data |-> <<>>,
     error |-> None, net |-> 0, results_before |-> prev,
     captures |-> <<>>, display_error |-> "", exports |-> None, buttons |-> {}]

InitSession ==
    [video_path |-> None, results |-> None, current_time |-> 0, run_yt_url |-> NoUrl,
     video_name |-> NoName]

\* The state once the page has been opened: the script has run once, without
\* video or results, and has ended at lines 478-479 with the get-started hint.
Init ==
    /\ mode \in {"unit", "app"}
    /\ env \in Envs
    /\ files = IF mode = "unit" THEN UnitFiles ELSE {}
    /\ tmpCount = 0
    /\ call = NoCall
    /\ session = InitSession
    /\ widgets = [uploaded_file |-> None, yt_url |-> NoUrl, capture_visual |-> TRUE,
                  clicked |-> None]
    /\ pc = "idle"
    /\ event = "none"
    /\ local = FreshLocal(None)
    /\ ui = IF mode = "app" THEN {"get_started"} ELSE {}
    /\ log = <<>>
    /\ reruns = 0

appVars == <<session, widgets, pc, event, local, ui, log, reruns>>

(***************************************************************************)
(* Unit mode: one module function applied to drawn inputs.                 *)
(***************************************************************************)
CallSummarize ==
    /\ mode = "unit" /\ call = NoCall
    /\ \/ \E reply \in Failures :
             call' = [fn |-> "summarize_transcription", layout |-> "", text |-> "", reply |-> reply,
                      out |-> summarize_transcription(env, reply)]
       \/ \E k \in Layouts, t \in DocTexts \cup {NotJson} :
             call' = [fn |-> "summarize_transcription", layout |-> k, text |-> t,
                      reply |-> Answer(Layout(k, t)),
                      out |-> summarize_transcription(env, Answer(Layout(k, t)))]
       \/ call' = [fn |-> "summarize_transcription", layout |-> "empty", text |-> "",
                   reply |-> Answer(<<>>), out |-> summarize_transcription(env, Answer(<<>>))]
    /\ UNCHANGED <<mode, env, files, tmpCount, appVars>>

CallRefine ==
    /\ mode = "unit" /\ call = NoCall
    /\ \E raw \in RawTexts, reply \in RefineReplies :
          call' = [fn |-> "refine_transcription", raw |-> raw, reply |-> reply,
                   out |-> refine_transcription(env, raw, reply)]
    /\ UNCHANGED <<mode, env, files, tmpCount, appVars>>

CallExtractAudio ==
    /\ mode = "unit" /\ call = NoCall
    /\ \E video_path \in UnitPaths, fmt \in {<<"m", "p", "3">>, <<"w", "a", "v">>}, io \in WriteOutcomes :
          LET r == extract_audio(env, files, tmpCount, video_path, fmt, io)
          IN  /\ call' = [fn |-> "extract_audio", video_path |-> video_path, io |-> io,
                          before |-> files, created |-> r.created, out |-> r.out]
              /\ files' = r.files
              /\ tmpCount' = r.tmp
    /\ UNCHANGED <<mode, env, appVars>>

CallCaptureKeyFrames ==
    /\ mode = "unit" /\ call = NoCall
    /\ \E video_path \in UnitPaths, timestamps \in TimestampLists, output_dir \in {"", "/frames"} :
          LET r == capture_key_frames(env, files, tmpCount, video_path, timestamps, output_dir)
          IN  /\ call' = [fn |-> "capture_key_frames", video_path |-> video_path,
                          timestamps |-> timestamps, before |-> files, out |-> r.out]
              /\ files' = r.files
              /\ tmpCount' = r.tmp
    /\ UNCHANGED <<mode, env, appVars>>

CallCaptureFrame ==
    /\ mode = "unit" /\ call = NoCall
    /\ \E video_path \in UnitPaths, timestamp_seconds \in Times :
          call' = [fn |-> "capture_frame_at_timestamp", video_path |-> video_path,
                   timestamp_seconds |-> timestamp_seconds, before |-> files,
                   out |-> capture_frame_at_timestamp(env, files, video_path, timestamp_seconds)]
    /\ UNCHANGED <<mode, env, files, tmpCount, appVars>>

CallIsSupported ==
    /\ mode = "unit" /\ call = NoCall
    /\ \E p \in UnitPaths :
          call' = [fn |-> "is_supported_video", filename |-> p, out |-> is_supported_video(p)]
    /\ UNCHANGED <<mode, env, files, tmpCount, appVars>>

CallFormatTimestamp ==
    /\ mode = "unit" /\ call = NoCall
    /\ \E t \in FormatTimes :
          call' = [fn |-> "format_timestamp", seconds |-> t, out |-> format_timestamp(t)]
    /\ UNCHANGED <<mode, env, files, tmpCount, appVars>>

CallFormatTimestampLong ==
    /\ mode = "unit" /\ call = NoCall
    /\ \E t \in FormatTimes :
          call' = [fn |-> "format_timestamp_long", seconds |-> t, out |-> format_timestamp_long(t)]
    /\ UNCHANGED <<mode, env, files, tmpCount, appVars>>

(***************************************************************************)
(* app.py: the Streamlit script.  Every user event reruns main() from the  *)
(* top; session and widgets survive the rerun, local does not.             *)
(***************************************************************************)
\* _is_youtube_url(url), for a URL given as its pieces in lower case.
IsYoutubeUrl(url) ==
    url # <<>> /\ (Contains(url, "youtube.com") \/ Contains(url, "youtu.be"))

YoutubeUrl == <<"https://", "youtu.be", "/abc">>
OtherUrl == <<"https://", "example.com", "/v.mp4">>

\* download_youtube_video(url): what the downloader does.
DownloadOutcomes == {"no_ytdlp", "private", "error", "no_file", "mp4", "m4a"}

DownloadError(outcome) ==
    CASE outcome = "no_ytdlp" -> "yt-dlp is not installed. Run: pip install yt-dlp"
      [] outcome = "private" -> "This video is private or unavailable."
      [] outcome = "error" -> "Download failed: HTTP Error 403"
      [] outcome = "no_file" -> "No video file was downloaded. The video may be private or restricted."
      [] OTHER -> ""

DownloadedName(outcome) ==
    IF outcome = "mp4" THEN <<"v", "i", "d", "e", "o", ".", "m", "p", "4">>
    ELSE <<"v", "i", "d", "e", "o", ".", "m", "4", "a">>

download_youtube_video(fs, n, outcome) ==
    IF outcome = "no_ytdlp" THEN [path |-> None, err |-> DownloadError(outcome), files |-> fs, tmp |-> n]
    ELSE LET output_dir == TempDir(n + 1)
             fs1 == WriteFile(fs, Path(output_dir, <<>>), Directory)
             p == Path(output_dir, DownloadedName(outcome))
         IN  IF outcome \in {"mp4", "m4a"}
             THEN [path |-> p, err |-> "",
                   files |-> WriteFile(fs1, p, IF outcome = "mp4"
                                               THEN Video(Duration, TRUE, TRUE, {})
                                               ELSE [k |-> "audio", of |-> None]),
                   tmp |-> n + 1]
             ELSE [path |-> None, err |-> DownloadError(outcome), files |-> fs1, tmp |-> n + 1]

\* get_video_info(video_path)["duration"]
InfoDuration(e, fs, video_path) ==
    IF ~e.moviepy \/ ~Exists(fs, video_path) THEN 0
    ELSE LET c == ContentOf(fs, video_path)
         IN  IF c.k = "video" /\ c.openable THEN c.duration ELSE 0

\* Files the user may upload: the uploader accepts the extensions of line 241.
Upload(name, media) == [name |-> name, media |-> media]
Uploads ==
    {Upload(<<"t", "a", "l", "k", ".", "m", "p", "4">>, Video(Duration, TRUE, TRUE, {})),
     Upload(<<"c", "l", "i", "p", ".", "M", "O", "V">>, Video(Duration, TRUE, TRUE, {TicksPerSecond})),
     Upload(<<"m", "u", "t", "e", ".", "m", "k", "v">>, Video(Duration, TRUE, FALSE, {}))}

AppAnalyzeReplies ==
    {ApiError("Rate limit reached"),
     Answer(Layout("fenced_json", DocFull)),
     Answer(Layout("plain", DocMany)),
     Answer(Layout("padded", DocClean)),
     Answer(Layout("plain", DocNoNumeric)),
     Answer(Layout("plain", DocBadHighlights)),
     Answer(Layout("plain", DocNumberHighlights)),
     Answer(Layout("plain", NotJson))}
AppRefineReplies == {ApiError("Connection error."), Answer(<<"Hello", " ", "world.">>)}
AppAsrResults == AsrResults
AppWriteOutcomes == WriteOutcomes

\* Python truthiness of a JSON value.
Truthy(v) ==
    CASE v.t = "str" -> v.s # ""
      [] v.t = "list" -> v.l # <<>>
      [] v.t = "num" -> v.n # 0
      [] v.t = "obj" -> DOMAIN v.o # {}
      [] v.t = "null" -> FALSE

\* float(t) of a highlight's timestamp, in ticks; line 319 skips the others.
NumericTexts == ("2" :> 2) @@ ("12" :> 12)
IsNumeric(t) == t.t = "num" \/ (t.t = "str" /\ t.s \in DOMAIN NumericTexts)
FloatTicks(t) == IF t.t = "num" THEN t.n * TicksPerSecond ELSE NumericTexts[t.s] * TicksPerSecond

\* h.get("timestamp")
GetTimestamp(h) == IF "timestamp" \in DOMAIN h.o THEN h.o["timestamp"] ELSE Null

\* Lines 314-320: the numeric timestamps of the highlights, in order.
RECURSIVE HighlightTimestamps(_)
HighlightTimestamps(hs) ==
    IF hs = <<>> THEN <<>>
    ELSE LET t == GetTimestamp(Head(hs))
         IN  (IF IsNumeric(t) THEN <<FloatTicks(t)>> ELSE <<>>) \o HighlightTimestamps(Tail(hs))

\* A slice that takes one element too many.
FirstNOffByOne(s, n) == SubSeq(s, 1, Min2(Len(s), n + 1))

\* timestamps[:6]
FirstN(s, n) == SubSeq(s, 1, Min2(Len(s), n))

\* The exception lines 315-316 raise, as a text, or "".
HighlightError(hl) ==
    IF hl.t = "num" THEN "'int' object is not iterable"
    ELSE IF hl.t = "str" THEN "'str' object has no attribute 'get'"
    ELSE IF hl.t = "obj" THEN "'str' object has no attribute 'get'"
    ELSE IF \E i \in DOMAIN hl.l : hl.l[i].t # "obj"
    THEN "'" \o PyTypeName(hl.l[CHOOSE i \in DOMAIN hl.l : hl.l[i].t # "obj"]) \o "' object has no attribute 'get'"
    ELSE ""

\* summary_data.get("timestamped_highlights")
GetHighlights(summary_data) ==
    IF "timestamped_highlights" \in DOMAIN summary_data
    THEN summary_data["timestamped_highlights"] ELSE Null

\* Lines 327-335.
ResultsRecord(l) ==
    [transcription |-> l.full_text,
     refined_transcription |-> l.refined_text,
     segments |-> l.segments,
     summary_data |-> l.summary_data,
     frames |-> l.frames_data,
     video_path |-> l.video_path,
     duration |-> l.info]

\* A user event at an idle page; a button can be clicked only if the last
\* rerun rendered it.  The event starts a rerun of the script: the page and
\* the locals of the last rerun are gone.  A clicked timestamp or segment
\* button reads True in that rerun only.
UserEvent ==
    /\ mode = "app" /\ pc = "idle" /\ reruns < MaxReruns
    /\ \/ \E f \in Uploads :
             /\ widgets' = [widgets EXCEPT !.uploaded_file = f]
             /\ event' = "upload"
       \/ /\ widgets.uploaded_file # None
          /\ widgets' = [widgets EXCEPT !.uploaded_file = None]
          /\ event' = "remove_upload"
       \/ \E u \in {YoutubeUrl, OtherUrl} :
             /\ widgets.yt_url # u
             /\ widgets' = [widgets EXCEPT !.yt_url = u]
             /\ event' = "type_url"
       \/ /\ widgets' = [widgets EXCEPT !.capture_visual = ~widgets.capture_visual]
          /\ event' = "toggle_capture"
       \/ /\ "yt_run_btn" \in ui
          /\ event' = "click_download"
          /\ UNCHANGED widgets
       \/ /\ "run_summary_btn" \in ui
          /\ event' = "click_run"
          /\ UNCHANGED widgets
       \/ \E b \in local.buttons :
             /\ widgets' = [widgets EXCEPT !.clicked = b]
             /\ event' = IF b.key = "ts" THEN "click_timestamp" ELSE "click_segment"
    /\ pc' = "start"
    /\ reruns' = reruns + 1
    /\ UNCHANGED <<mode, env, files, tmpCount, call, session, local, ui, log>>

\* Lines 188-249: page head, sidebar, session defaults, the download button.
Start ==
    /\ mode = "app" /\ pc = "start"
    /\ local' = FreshLocal(session.results)
    /\ log' = <<>>
    /\ ui' = IF IsYoutubeUrl(widgets.yt_url) THEN {"yt_run_btn"} ELSE {}
    /\ session' = IF IsYoutubeUrl(widgets.yt_url) /\ event = "click_download"
                  THEN [session EXCEPT !.run_yt_url = widgets.yt_url]
                  ELSE session
    /\ pc' = "acquire"
    /\ UNCHANGED <<mode, env, files, tmpCount, call, widgets, event, reruns>>

\* Lines 251-267: the video of this rerun, from the uploader or the downloader.
Acquire ==
    /\ mode = "app" /\ pc = "acquire"
    /\ IF widgets.uploaded_file # None
       THEN LET f == widgets.uploaded_file
                tmp == TempName(tmpCount + 1, Suffix(Path("", f.name)))
            IN  /\ files' = WriteFile(files, tmp, f.media)
                /\ tmpCount' = tmpCount + 1
                /\ local' = [local EXCEPT !.video_path = tmp]
                /\ session' = [session EXCEPT !.video_name = [set |-> TRUE, v |-> Stem(Path("", f.name))]]
                /\ ui' = ui \cup {"uploaded"}
       ELSE IF session.run_yt_url # NoUrl
       THEN \E outcome \in DownloadOutcomes :
              LET r == download_youtube_video(files, tmpCount, outcome)
              IN  /\ files' = r.files
                  /\ tmpCount' = r.tmp
                  /\ local' = [local EXCEPT !.video_path = r.path]
                  /\ session' = [session EXCEPT
                        !.run_yt_url = NoUrl,
                        !.video_name = IF r.path # None
                                       THEN [set |-> TRUE, v |-> <<"YouTube_Video">>] ELSE @]
                  /\ ui' = ui \cup {IF r.path # None THEN "downloaded" ELSE "download_error"}
       ELSE UNCHANGED <<files, tmpCount, local, session, ui>>
    /\ pc' = "validate"
    /\ UNCHANGED <<mode, env, call, widgets, event, log, reruns>>

\* Lines 269-283: format check, preview, the Run Summary button.
Validate ==
    /\ mode = "app" /\ pc = "validate"
    /\ IF local.video_path # None /\ is_supported_video(local.video_path)
       THEN /\ session' = [session EXCEPT !.video_path = local.video_path]
            /\ ui' = ui \cup {"preview", "run_summary_btn"}
            /\ local' = [local EXCEPT !.info = InfoDuration(env, files, local.video_path)]
            /\ pc' = IF event = "click_run" THEN "extract" ELSE "display"
       ELSE /\ pc' = "display"
            /\ UNCHANGED <<session, ui, local>>
    /\ UNCHANGED <<mode, env, files, tmpCount, call, widgets, event, log, reruns>>

\* An error handler that also drops what the session held.
FailedClearsResults(l, stage, out) ==
    /\ local' = [l EXCEPT !.error = out]
    /\ log' = Append(log, [stage |-> stage, ok |-> FALSE])
    /\ ui' = ui \cup {"error"}
    /\ pc' = "display"
    /\ session' = [session EXCEPT !.results = None]

\* Lines 337-339: the run is abandoned and the error shown.
Failed(l, stage, out) ==
    /\ local' = [l EXCEPT !.error = out]
    /\ log' = Append(log, [stage |-> stage, ok |-> FALSE])
    /\ ui' = ui \cup {"error"}
    /\ pc' = "display"
    /\ UNCHANGED session

Passed(stage, next) ==
    /\ log' = Append(log, [stage |-> stage, ok |-> TRUE])
    /\ pc' = next
    /\ UNCHANGED ui
    /\ stage # "store" => UNCHANGED session

\* Lines 288-292.
StageExtract ==
    /\ mode = "app" /\ pc = "extract"
    /\ \E io \in AppWriteOutcomes :
          LET r == extract_audio(env, files, tmpCount, local.video_path, <<"m", "p", "3">>, io)
          IN  /\ files' = r.files
              /\ tmpCount' = r.tmp
              /\ IF r.out.kind = "raise"
                 THEN Failed(local, "extract", r.out)
                 ELSE /\ local' = [local EXCEPT !.audio_path = r.out.value]
                      /\ Passed("extract", "transcribe")
    /\ UNCHANGED <<mode, env, call, widgets, event, reruns>>

\* A cleanup that leaves the audio file in place.
RemoveAudioSkipped(fs, audio_path) == fs

\* Lines 297-298: the extracted audio file is removed.
RemoveAudio(fs, audio_path) == IF Exists(fs, audio_path) THEN Unlink(fs, audio_path) ELSE fs

\* Lines 294-299: transcription, then the audio file removed.
StageTranscribe ==
    /\ mode = "app" /\ pc = "transcribe"
    /\ \E asr \in AppAsrResults :
          LET out == transcribe_audio(env, files, local.audio_path, asr)
          IN  IF out.kind = "raise"
              THEN /\ Failed(local, "transcribe", out)
                   /\ UNCHANGED files
              ELSE /\ local' = [local EXCEPT !.full_text = out.value.full_text,
                                             !.segments = out.value.segments]
                   /\ files' = RemoveAudio(files, local.audio_path)
                   /\ Passed("transcribe", "analyze")
    /\ UNCHANGED <<mode, env, tmpCount, call, widgets, event, reruns>>

\* Lines 301-303.
StageAnalyze ==
    /\ mode = "app" /\ pc = "analyze"
    /\ \E reply \in AppAnalyzeReplies :
          LET out == summarize_transcription(env, reply)
          IN  IF out.kind = "raise"
              THEN Failed([local EXCEPT !.net = @ + out.net], "analyze", out)
              ELSE /\ local' = [local EXCEPT !.summary_data = out.value, !.net = @ + out.net]
                   /\ Passed("analyze", "refine")
    /\ UNCHANGED <<mode, env, files, tmpCount, call, widgets, event, reruns>>

\* Lines 305-308.
StageRefine ==
    /\ mode = "app" /\ pc = "refine"
    /\ \E reply \in AppRefineReplies :
          LET out == refine_transcription(env, local.full_text, reply)
          IN  IF out.kind = "raise"
              THEN Failed([local EXCEPT !.net = @ + out.net], "refine", out)
              ELSE /\ local' = [local EXCEPT !.refined_text = out.value, !.net = @ + out.net]
                   /\ Passed("refine", "highlight")
    /\ UNCHANGED <<mode, env, files, tmpCount, call, widgets, event, reruns>>

\* Lines 310-322.
StageHighlight ==
    /\ mode = "app" /\ pc = "highlight"
    /\ LET hl == GetHighlights(local.summary_data)
       IN  IF widgets.capture_visual /\ Truthy(hl)
           THEN IF HighlightError(hl) # ""
                THEN /\ Failed(local, "highlight",
                            Raise(IF hl.t = "num" THEN "TypeError" ELSE "AttributeError",
                                  <<HighlightError(hl)>>, 0))
                     /\ UNCHANGED <<files, tmpCount>>
                ELSE LET timestamps == HighlightTimestamps(hl.l)
                     IN  IF timestamps # <<>>
                         THEN LET r == capture_key_frames(env, files, tmpCount, local.video_path,
                                                          FirstN(timestamps, MAX_FRAMES), "")
                              IN  /\ files' = r.files
                                  /\ tmpCount' = r.tmp
                                  /\ local' = [local EXCEPT
                                        !.frames_data = r.out.value,
                                        !.captures = Append(@, FirstN(timestamps, MAX_FRAMES))]
                                  /\ Passed("highlight", "store")
                         ELSE /\ UNCHANGED <<files, tmpCount, local>>
                              /\ Passed("highlight", "store")
           ELSE /\ UNCHANGED <<files, tmpCount, local>>
                /\ Passed("highlight", "store")
    /\ UNCHANGED <<mode, env, call, widgets, event, reruns>>

\* Lines 324-335.
StageStore ==
    /\ mode = "app" /\ pc = "store"
    /\ session' = [session EXCEPT !.results = ResultsRecord(local)]
    /\ Passed("store", "display")
    /\ UNCHANGED <<mode, env, files, tmpCount, call, widgets, event, local, reruns>>

\* The document renderers of document_exporter, by what the rendering library
\* does: it works, it is not installed, or it fails while rendering.
Capabilities == {"ok", "missing", "fails"}
Bytes(kind) == [bytes |-> kind]

\* export_summary_pdf_enhanced: bytes, or an absent result on any failure.
export_summary_pdf_enhanced(capability) == IF capability = "ok" THEN Bytes("pdf") ELSE None
\* export_summary_word: bytes, or an absent result without the capability.
export_summary_word(capability) == IF capability = "ok" THEN Bytes("docx") ELSE None
\* export_summary_markdown: pure templating over the name and the transcripts.
export_summary_markdown(video_name, full_transcription, refined_transcription) ==
    <<"# ">> \o video_name \o <<"\n">> \o refined_transcription \o <<"\n">> \o full_transcription

\* An export section that gives up once a document is absent.
ExportSectionStopsAtAbsent(pdf_bytes, word_bytes, md_content) ==
    IF pdf_bytes = None THEN {"pdf_disabled"}
    ELSE IF word_bytes = None THEN {"pdf_download", "word_hint"}
    ELSE {"pdf_download", "word_download", "md_download"}

\* Lines 436-476: what the export columns show for the three documents.
ExportSection(pdf_bytes, word_bytes, md_content) ==
    (IF pdf_bytes # None THEN {"pdf_download"} ELSE {"pdf_disabled"})
        \cup (IF word_bytes # None THEN {"word_download"} ELSE {"word_hint"})
        \cup {"md_download"}

\* sd.get(key, default)
DictGet(d, k, default) == IF k \in DOMAIN d THEN d[k] ELSE default

\* Iterating a value that is no iterable: the TypeError text, or "".
IterationError(v) ==
    IF v.t \in {"null", "num"} THEN "'" \o PyTypeName(v) \o "' object is not iterable" ELSE ""

\* Lines 379-391: one button per highlight; the first exception, or "".
\* seen holds the timestamps whose button key ts_<timestamp> is taken.
RECURSIVE HighlightButtonsError(_, _)
HighlightButtonsError(hs, seen) ==
    IF hs = <<>> THEN ""
    ELSE LET h == Head(hs)
         IN  IF h.t # "obj" THEN "'" \o PyTypeName(h) \o "' object has no attribute 'get'"
             ELSE LET ts == DictGet(h.o, "timestamp", Num(0))
                  IN  IF ts.t # "num"
                      THEN "unsupported operand type(s) for //: '" \o PyTypeName(ts) \o "' and 'int'"
                      ELSE IF ts \in seen THEN "DuplicateWidgetID"
                      ELSE HighlightButtonsError(Tail(hs), seen \cup {ts})

\* Lines 394-402: one button per segment, keyed seg_<start>.
RECURSIVE SegmentButtonsError(_, _)
SegmentButtonsError(segs, seen) ==
    IF segs = <<>> THEN ""
    ELSE IF Head(segs).start \in seen THEN "DuplicateWidgetID"
    ELSE SegmentButtonsError(Tail(segs), seen \cup {Head(segs).start})

\* Lines 376-402.
TimestampsError(r) ==
    LET highlights == DictGet(r.summary_data, "timestamped_highlights", Lst(<<>>))
    IN  IF Truthy(highlights)
        THEN IF highlights.t = "list" THEN HighlightButtonsError(highlights.l, {})
             ELSE IF highlights.t = "num" THEN IterationError(highlights)
             ELSE "'str' object has no attribute 'get'"
        ELSE SegmentButtonsError(FirstN(r.segments, 15), {})

\* Lines 417-422: every frame image is read from its file.
FramesError(r, fs) ==
    IF \E i \in DOMAIN r.frames : ~Exists(fs, r.frames[i].img_path)
    THEN "MediaFileStorageError" ELSE ""

\* Lines 379-391: the buttons rendered before the loop ends or raises.  A
\* button is [key, ts]: key ts_<timestamp> for a highlight, seg_<start> for a
\* segment, and ts the time it seeks to, in ticks.
RECURSIVE HighlightButtons(_, _)
HighlightButtons(hs, seen) ==
    IF hs = <<>> \/ Head(hs).t # "obj" THEN {}
    ELSE LET ts == DictGet(Head(hs).o, "timestamp", Num(0))
         IN  IF ts.t # "num" \/ ts \in seen THEN {}
             ELSE {[key |-> "ts", ts |-> FloatTicks(ts)]} \cup HighlightButtons(Tail(hs), seen \cup {ts})

\* Lines 394-402: the buttons rendered before the loop ends or raises.
RECURSIVE SegmentButtons(_, _)
SegmentButtons(segs, seen) ==
    IF segs = <<>> \/ Head(segs).start \in seen THEN {}
    ELSE {[key |-> "seg", ts |-> Head(segs).start]}
             \cup SegmentButtons(Tail(segs), seen \cup {Head(segs).start})

\* Lines 376-402: the buttons of the timestamps column.
TimestampButtons(r) ==
    LET highlights == DictGet(r.summary_data, "timestamped_highlights", Lst(<<>>))
    IN  IF Truthy(highlights)
        THEN IF highlights.t = "list" THEN HighlightButtons(highlights.l, {}) ELSE {}
        ELSE SegmentButtons(FirstN(r.segments, 15), {})

\* Lines 353-374: the first exception the analysis column raises, or "".
AnalysisError(sd) ==
    LET insights == IterationError(DictGet(sd, "key_insights", Lst(<<>>)))
        concepts == IF Truthy(DictGet(sd, "important_concepts", Lst(<<>>)))
                    THEN IterationError(DictGet(sd, "important_concepts", Lst(<<>>))) ELSE ""
        keywords == IF Truthy(DictGet(sd, "keywords", Lst(<<>>)))
                    THEN IterationError(DictGet(sd, "keywords", Lst(<<>>))) ELSE ""
    IN  IF insights # "" THEN insights
        ELSE IF concepts # "" THEN concepts
        ELSE keywords

\* The buttons a rerun renders: none once the analysis column has raised.
RenderedButtons(r) == IF AnalysisError(r.summary_data) # "" THEN {} ELSE TimestampButtons(r)

\* Lines 342-422: the first exception the results sections raise, or "".
DisplayError(r, fs) ==
    IF AnalysisError(r.summary_data) # "" THEN AnalysisError(r.summary_data)
    ELSE IF TimestampsError(r) # "" THEN TimestampsError(r)
    ELSE FramesError(r, fs)

\* Lines 341-483: the results, when the session holds any, with the three
\* exports; else the hint.  An exception in the script ends the rerun there.
\* A timestamp or segment button that reads True stores its time in the
\* session and calls st.rerun() (lines 389-390, 401-402): the rerun ends at
\* the button, before the frames and the exports, and the script runs again.
Display ==
    /\ mode = "app" /\ pc = "display"
    /\ IF session.results # None
       THEN LET r == session.results
                err == DisplayError(r, files)
                buttons == RenderedButtons(r)
            IN  IF widgets.clicked \in buttons
                THEN /\ session' = [session EXCEPT !.current_time = widgets.clicked.ts]
                     /\ ui' = ui \cup {"results"}
                     /\ pc' = "start"
                     /\ event' = "st.rerun"
                     /\ UNCHANGED local
                ELSE /\ IF err # ""
                        THEN /\ ui' = ui \cup {"results", "exception"}
                             /\ local' = [local EXCEPT !.display_error = err,
                                                       !.buttons = buttons]
                        ELSE \E pdf_capability, word_capability \in Capabilities :
                                LET video_name == IF session.video_name.set
                                                  THEN session.video_name.v ELSE <<"Video">>
                                    pdf_bytes == export_summary_pdf_enhanced(pdf_capability)
                                    word_bytes == export_summary_word(word_capability)
                                    md_content == export_summary_markdown(
                                                      video_name, r.transcription,
                                                      r.refined_transcription)
                                IN  /\ ui' = ui \cup {"results", "exports"}
                                                \cup ExportSection(pdf_bytes, word_bytes, md_content)
                                    /\ local' = [local EXCEPT
                                          !.buttons = buttons,
                                          !.exports = [pdf_capability |-> pdf_capability,
                                                       word_capability |-> word_capability,
                                                       pdf |-> pdf_bytes, word |-> word_bytes,
                                                       md |-> md_content]]
                     /\ pc' = "idle"
                     /\ UNCHANGED <<session, event>>
       ELSE /\ ui' = IF local.video_path = None THEN ui \cup {"get_started"} ELSE ui
            /\ pc' = "idle"
            /\ UNCHANGED <<local, session, event>>
    /\ widgets' = [widgets EXCEPT !.clicked = None]
    /\ UNCHANGED <<mode, env, files, tmpCount, call, log, reruns>>

Next ==
    \/ CallSummarize
    \/ CallRefine
    \/ CallExtractAudio
    \/ CallCaptureKeyFrames
    \/ CallCaptureFrame
    \/ CallIsSupported
    \/ CallFormatTimestamp
    \/ CallFormatTimestampLong
    \/ UserEvent
    \/ Start
    \/ Acquire
    \/ Validate
    \/ StageExtract
    \/ StageTranscribe
    \/ StageAnalyze
    \/ StageRefine
    \/ StageHighlight
    \/ StageStore
    \/ Display

Spec == Init /\ [][Next]_vars

(***************************************************************************)
(* Properties.                                                             *)
(***************************************************************************)
ClientAvailable == env.openai /\ env.key \notin {Unset, ""}

IsRefine == call.fn = "refine_transcription"
IsSummarize == call.fn = "summarize_transcription"

\* The reply is one the expression response.choices[0].message.content.strip() fails on.
ReplyFails(reply) ==
    \/ reply.r = "error"
    \/ reply.choices = <<>>
    \/ ~reply.choices[1].hasContent

\* The layouts whose text reaches json.loads alone once the fence is removed.
BareLayouts == {"plain", "padded", "fenced_json", "fenced_JSON", "fenced", "fenced_open", "fenced_trailer"}

\* The answer parses as JSON.
AnswerParses == call.layout \in BareLayouts /\ call.text \in DocTexts
\* The model answered, and the answer does not parse as JSON.
AnswerUnparseable == ~ReplyFails(call.reply) /\ ~AnswerParses

AnalysisKeys == {"main_purpose", "key_insights", "important_concepts", "structured_summary",
                 "keywords", "timestamped_highlights"}
DefaultOf(k) == IF k \in {"main_purpose", "structured_summary"} THEN Str("") ELSE Lst(<<>>)

\* C1 as stated: whatever fails during refine_transcription (the request, the
\* credential, the client library), the raw text is returned and nothing is raised.
C1_RefineNeverRaises ==
    (IsRefine /\ (~ClientAvailable \/ ReplyFails(call.reply)))
        => (call.out.kind = "return" /\ call.out.value = call.raw)

\* C1 amended: when the client is available, every failure of the request or of
\* the reply handling returns the raw text exactly; a missing client library or
\* credential is raised by _get_client (ImportError, ValueError) with no request.
C1_RefineFallsBackOnRequestFailure ==
    IsRefine =>
        /\ (ClientAvailable /\ ReplyFails(call.reply))
                => (call.out.kind = "return" /\ call.out.value = call.raw)
        /\ ClientAvailable => call.out.kind = "return"
        /\ ~ClientAvailable
                => (call.out.kind = "raise" /\ call.out.exc \in {"ImportError", "ValueError"}
                    /\ call.out.net = 0)

C1_Witness ==
    /\ IsRefine /\ ClientAvailable /\ call.reply.r = "error"
    /\ call.raw # Strip(call.raw)
    /\ call.out.kind = "return" /\ call.out.value = call.raw

\* C2: an answer that is not JSON yields, with no exception, a result whose
\* keywords and key_insights are empty lists and whose _parse_error is not empty.
C2_ParseFailureResult ==
    (IsSummarize /\ ClientAvailable /\ AnswerUnparseable) =>
        /\ call.out.kind = "return"
        /\ "keywords" \in DOMAIN call.out.value /\ call.out.value["keywords"] = Lst(<<>>)
        /\ "key_insights" \in DOMAIN call.out.value /\ call.out.value["key_insights"] = Lst(<<>>)
        /\ "_parse_error" \in DOMAIN call.out.value /\ call.out.value["_parse_error"].s # ""

\* C3: past the credential check, the JSON parse failure is the only failure
\* that yields a result; a failed request, a reply without choices or content,
\* JSON that is not an object and an object the result cannot be built from all
\* raise RuntimeError carrying the underlying error text.
C3_OnlyParseFailureRecovered ==
    (IsSummarize /\ ClientAvailable) =>
        /\ (ReplyFails(call.reply) \/ (AnswerParses /\ JsonDocs[call.text].t # "obj"))
                => call.out.kind = "raise"
        /\ call.out.kind = "raise" =>
                /\ call.out.exc = "RuntimeError"
                /\ Len(call.out.msg) = 2 /\ call.out.msg[2] # ""
                /\ call.reply.r = "error" => Contains(call.out.msg, call.reply.text)
                /\ call.reply.r # "error" => call.out.msg[2] \notin ApiErrors
        /\ call.out.kind = "return" =>
                ("_parse_error" \in DOMAIN call.out.value <=> AnswerUnparseable)

C3_Witness ==
    /\ IsSummarize /\ ClientAvailable
    /\ AnswerParses /\ JsonDocs[call.text].t = "list"
    /\ call.out.kind = "raise" /\ call.out.exc = "RuntimeError"
    /\ Contains(call.out.msg, "'list' object has no attribute 'setdefault'")

\* C4 as stated: for every answer that parses as JSON, the result returned has
\* each analysis key, with a string or list value.
C4_KeysAlwaysStringOrList ==
    (IsSummarize /\ ClientAvailable /\ AnswerParses /\ call.out.kind = "return") =>
        \A k \in AnalysisKeys :
            k \in DOMAIN call.out.value /\ call.out.value[k].t \in {"str", "list"}

\* C4 amended: for every answer that parses as a JSON object and yields a
\* result, the result has each analysis key; a key the answer omitted holds the
\* empty string or empty list, a key the answer gave holds the answer's value.
C4_OmittedKeysDefaulted ==
    (IsSummarize /\ ClientAvailable /\ AnswerParses /\ call.out.kind = "return") =>
        /\ JsonDocs[call.text].t = "obj"
        /\ \A k \in AnalysisKeys :
              /\ k \in DOMAIN call.out.value
              /\ k \in DOMAIN JsonDocs[call.text].o => call.out.value[k] = JsonDocs[call.text].o[k]
              /\ k \notin DOMAIN JsonDocs[call.text].o => call.out.value[k] = DefaultOf(k)

C4_Witness ==
    /\ IsSummarize /\ ClientAvailable /\ call.layout = "fenced_json" /\ call.text = DocEmpty
    /\ call.out.kind = "return"
    /\ \A k \in AnalysisKeys : k \in DOMAIN call.out.value /\ call.out.value[k] = DefaultOf(k)

IsExtract == call.fn = "extract_audio"
IsCapture == call.fn = "capture_key_frames"

KeyMissing == env.key \in {Unset, ""}
StageOk(stage) == [stage |-> stage, ok |-> TRUE]
StageFailed(stage) == [stage |-> stage, ok |-> FALSE]

\* The run failed at the Analyzer, after extraction and transcription completed.
FailedAtAnalyzer == log = <<StageOk("extract"), StageOk("transcribe"), StageFailed("analyze")>>

\* In a session without the credential no run gets past the Analyzer, and the
\* Analyzer issues no request.
NoRunPastAnalyzer ==
    (mode = "app" /\ KeyMissing) =>
        /\ pc \notin {"refine", "highlight", "store"}
        /\ session.results = None
        /\ local.net = 0
        /\ (local.error # None /\ local.error.exc = "ValueError") => FailedAtAnalyzer

\* C5 as stated: without the credential both operations raise MissingCredential
\* (ValueError) before any request, and a run fails so at the Analyzer, after
\* extraction and transcription.
C5_MissingCredentialFirst ==
    /\ ((IsSummarize \/ IsRefine) /\ KeyMissing)
            => (call.out.kind = "raise" /\ call.out.exc = "ValueError" /\ call.out.net = 0)
    /\ (mode = "app" /\ KeyMissing /\ Len(log) >= 3)
            => (FailedAtAnalyzer /\ local.error.exc = "ValueError" /\ local.net = 0)
    /\ NoRunPastAnalyzer

\* C5 amended: without the credential both operations raise before any request,
\* MissingCredential (ValueError) when the client library is importable and the
\* library's ImportError otherwise; a run fails so at the Analyzer, after
\* extraction and transcription.
C5_ClientFailureBeforeRequest ==
    /\ ((IsSummarize \/ IsRefine) /\ KeyMissing)
            => /\ call.out.kind = "raise" /\ call.out.net = 0
               /\ call.out.exc = IF env.openai THEN "ValueError" ELSE "ImportError"
    /\ (mode = "app" /\ KeyMissing /\ Len(log) >= 3)
            => /\ FailedAtAnalyzer /\ local.net = 0
               /\ local.error.exc = IF env.openai THEN "ValueError" ELSE "ImportError"
    /\ NoRunPastAnalyzer

C5_Witness ==
    /\ mode = "app" /\ KeyMissing /\ env.openai
    /\ FailedAtAnalyzer /\ local.error.exc = "ValueError" /\ local.net = 0
    /\ local.full_text # <<>>

\* The time the decoder is asked for, written out.
ClampedTime(ts, d) ==
    LET floor == IF ts < 0 THEN 0 ELSE ts
    IN  IF floor > d - Epsilon THEN d - Epsilon ELSE floor
InRange(ts, d) == 0 <= ts /\ ts < d

\* The i-th requested timestamp of the call yields a frame.
Decodes(i) ==
    /\ env.moviepy
    /\ Exists(call.before, call.video_path)
    /\ LET v == ContentOf(call.before, call.video_path)
       IN  v.openable /\ ClampedTime(call.timestamps[i], v.duration) \notin v.bad

\* C6 as stated: of one valid and one out-of-range timestamp exactly one Frame
\* is returned (on a video that decodes everywhere).
C6_OutOfRangeDropped ==
    (/\ IsCapture /\ env.moviepy /\ call.video_path = GoodVideo
     /\ Len(call.timestamps) = 2
     /\ \E i, j \in 1..2 : /\ i # j
                           /\ InRange(call.timestamps[i], Duration)
                           /\ ~InRange(call.timestamps[j], Duration))
        => (call.out.kind = "return" /\ Len(call.out.value) = 1)

\* C6 amended: no exception escapes and one Frame is returned per requested
\* timestamp whose clamped time min(max(0, ts), duration - 0.01) decodes; an
\* out-of-range timestamp is clamped into the video, not dropped, so one valid
\* and one out-of-range timestamp give two Frames when both decode.
C6_OneFramePerDecodableTimestamp ==
    IsCapture =>
        /\ call.out.kind = "return"
        /\ Len(call.out.value) = Cardinality({i \in DOMAIN call.timestamps : Decodes(i)})
        /\ \A j \in DOMAIN call.out.value :
              call.out.value[j].at
                  = ClampedTime(call.out.value[j].ts, ContentOf(call.before, call.video_path).duration)

C6_Witness ==
    /\ IsCapture /\ env.moviepy /\ call.video_path = GoodVideo
    /\ call.timestamps = <<TicksPerSecond \div 2, 5 * TicksPerSecond>>
    /\ Len(call.out.value) = 2
    /\ call.out.value[2].ts = 5 * TicksPerSecond /\ call.out.value[2].at = Duration - Epsilon

\* The request index a returned Frame was captured for, read off its file name.
FrameIndex(frame) ==
    CHOOSE i \in DOMAIN call.timestamps : frame.img_path.name[2] = ToString(i - 1)

\* C7: a timestamp without a frame is skipped and the loop goes on: nothing is
\* raised, every timestamp that decodes has its Frame, and the Frames are a
\* subsequence of the request, in order, each with the requested value.
C7_FramesAreSubsequence ==
    IsCapture =>
        /\ call.out.kind = "return"
        /\ Len(call.out.value) <= Len(call.timestamps)
        /\ \A j \in DOMAIN call.out.value :
              /\ \E i \in DOMAIN call.timestamps : call.out.value[j].img_path.name[2] = ToString(i - 1)
              /\ call.out.value[j].ts = call.timestamps[FrameIndex(call.out.value[j])]
        /\ \A j, k \in DOMAIN call.out.value :
              j < k => FrameIndex(call.out.value[j]) < FrameIndex(call.out.value[k])
        /\ \A i \in DOMAIN call.timestamps :
              Decodes(i) => \E j \in DOMAIN call.out.value : FrameIndex(call.out.value[j]) = i

C7_Witness ==
    /\ IsCapture /\ env.moviepy /\ call.video_path = FlakyVideo
    /\ call.timestamps = <<0, TicksPerSecond \div 2>>
    /\ Len(call.out.value) = 1
    /\ call.out.value[1].ts = TicksPerSecond \div 2
    /\ FrameIndex(call.out.value[1]) = 2

\* What extract_audio leaves behind, whatever the failure.
ExtractLeavesNothing ==
    /\ call.out.kind = "raise" => files = call.before
    /\ (call.out.kind = "raise" /\ call.created # {}) =>
            /\ call.out.exc = "RuntimeError"
            /\ Len(call.out.msg) = 2 /\ call.out.msg[1] = "Failed to extract audio: "
            /\ call.out.msg[2] # ""
            /\ call.io # "ok" /\ ContentOf(call.before, call.video_path).openable
                /\ ContentOf(call.before, call.video_path).audio => call.out.msg[2] = call.io
    /\ call.out.kind = "return" =>
            /\ call.created = {call.out.value}
            /\ ~Exists(call.before, call.out.value)
            /\ files = call.before \cup {File(call.out.value, [k |-> "audio", of |-> call.video_path])}

\* C8 as stated: a missing input fails with SourceNotFound before any temporary
\* file exists; a decode failure deletes the temporary file before raising
\* ExtractionFailed with the diagnostic; a success leaves the audio file.
C8_NoTemporaryLeftBehind ==
    IsExtract =>
        /\ ~Exists(call.before, call.video_path)
                => (call.out.kind = "raise" /\ call.out.exc = "FileNotFoundError"
                    /\ call.created = {})
        /\ ExtractLeavesNothing

\* C8 amended: a missing input fails before any temporary file exists, with
\* SourceNotFound when the media library is importable and with the library's
\* ImportError otherwise; the rest as stated.
C8_NoTemporaryLeftBehindAmended ==
    IsExtract =>
        /\ ~Exists(call.before, call.video_path)
                => /\ call.out.kind = "raise" /\ call.created = {}
                   /\ call.out.exc = IF env.moviepy THEN "FileNotFoundError" ELSE "ImportError"
        /\ ExtractLeavesNothing

C8_Witness ==
    /\ IsExtract /\ env.moviepy /\ call.video_path = GoodVideo /\ call.io # "ok"
    /\ call.created # {} /\ call.out.kind = "raise" /\ call.out.exc = "RuntimeError"
    /\ files = call.before

\* The pipeline stages, in order.
AllStagesOk ==
    <<StageOk("extract"), StageOk("transcribe"), StageOk("analyze"), StageOk("refine"),
      StageOk("highlight")>>

\* C9: a run that fails leaves the stored results as they were; the results
\* are written only once every stage of the run has completed, as the complete
\* record of that run.
C9_ResultsOnlyFromCompleteRun ==
    /\ [](mode = "app" =>
            /\ (pc \in {"acquire", "validate", "extract", "transcribe", "analyze", "refine",
                        "highlight", "store"})
                    => session.results = local.results_before
            /\ (local.error # None) => session.results = local.results_before
            /\ (pc \in {"display", "idle"} /\ session.results # local.results_before)
                    => /\ log = Append(AllStagesOk, StageOk("store"))
                       /\ session.results.transcription = local.full_text
                       /\ session.results.refined_transcription = local.refined_text
                       /\ session.results.segments = local.segments
                       /\ session.results.summary_data = local.summary_data
                       /\ session.results.frames = local.frames_data
                       /\ session.results.video_path = local.video_path
                       /\ session.results.duration = local.info)
    /\ [][session'.results # session.results => (pc = "store" /\ log = AllStagesOk)]_vars

C9_Witness ==
    /\ mode = "app" /\ pc = "display"
    /\ local.results_before # None
    /\ local.error # None
    /\ session.results = local.results_before
    /\ session.results.video_path # local.video_path

\* The acquired video's extension, letter case aside, is a supported one.
Mp4 == <<".", "m", "p", "4">>
Mov == <<".", "m", "o", "v">>
Mkv == <<".", "m", "k", "v">>
HasSupportedExtension(p) ==
    \E x \in {Mp4, Mov, Mkv} :
        /\ Len(p.name) > Len(x)
        /\ Lower(SubSeq(p.name, Len(p.name) - Len(x) + 1, Len(p.name))) = x

\* C10: at the end of a rerun that acquired a video, an unsupported extension
\* has been reported to the user as UnsupportedFormat and no stage has run on
\* it; a supported one, in any letter case, has been accepted.
C10_UnsupportedFormatReported ==
    (mode = "app" /\ pc = "idle" /\ local.video_path # None) =>
        IF HasSupportedExtension(local.video_path)
        THEN {"preview", "run_summary_btn"} \subseteq ui
        ELSE /\ "unsupported_format" \in ui
             /\ "preview" \notin ui /\ "run_summary_btn" \notin ui /\ log = <<>>

\* Run Summary was clicked on a page whose video came from the downloader: the
\* button is rendered only for a video acquired in that rerun, and no upload is
\* selected.
ClickedRunAfterDownload ==
    mode = "app" /\ event = "click_run" /\ widgets.uploaded_file = None

\* C11: after a successful download, a click on Run Summary runs the pipeline
\* on the downloaded video: when the rerun the click triggers has finished, the
\* downloaded path is the current video and the run has stored its results or
\* reported a stage error.
C11_RunSummaryAfterDownloadRuns ==
    (ClickedRunAfterDownload /\ pc = "idle") =>
        /\ local.video_path # None /\ local.video_path = session.video_path
        /\ \/ /\ log = Append(AllStagesOk, StageOk("store"))
              /\ session.results # None /\ session.results.video_path = session.video_path
           \/ /\ "error" \in ui /\ local.error # None

\* The rerun has finished and the export section was reached.
ExportsShown == mode = "app" /\ pc = "idle" /\ local.exports # None

\* C12: whatever the PDF and Word renderers yield (bytes, or an absent result
\* because the capability is missing or the rendering failed), the Markdown
\* renderer is invoked and its non-empty text is offered for download; an
\* absent Word result shows the installation hint.  The export section is
\* reached whenever the results sections above it raise nothing.
C12_MarkdownExportIndependent ==
    /\ ExportsShown =>
            /\ local.exports.md # <<>>
            /\ "md_download" \in ui
            /\ local.exports.word = None <=> local.exports.word_capability # "ok"
            /\ local.exports.pdf = None <=> local.exports.pdf_capability # "ok"
            /\ local.exports.word = None => ("word_hint" \in ui /\ "word_download" \notin ui)
            /\ local.exports.word # None => ("word_download" \in ui /\ "word_hint" \notin ui)
            /\ local.exports.pdf = None <=> "pdf_disabled" \in ui
            /\ local.exports.pdf # None <=> "pdf_download" \in ui
    /\ (mode = "app" /\ pc = "idle" /\ session.results # None /\ local.display_error = "")
            => local.exports # None

C12_Witness ==
    /\ ExportsShown
    /\ local.exports.pdf_capability = "fails" /\ local.exports.word_capability = "missing"
    /\ local.exports.pdf = None /\ local.exports.word = None
    /\ {"word_hint", "md_download", "pdf_disabled"} \subseteq ui
    /\ Contains(local.exports.md, "hello")

\* Reading a formatted time back: the number a run of digit characters writes.
IsDigit(c) == \E d \in 0..9 : Digits[d + 1] = c
DigitValue(c) == CHOOSE d \in 0..9 : Digits[d + 1] = c
AllDigits(cs) == \A i \in DOMAIN cs : IsDigit(cs[i])

RECURSIVE NumberOf(_)
NumberOf(cs) ==
    IF cs = <<>> THEN 0
    ELSE 10 * NumberOf(SubSeq(cs, 1, Len(cs) - 1)) + DigitValue(cs[Len(cs)])

\* A field padded to two digits and no further.
TwoDigitPadded(cs) == AllDigits(cs) /\ Len(cs) >= 2 /\ (Len(cs) > 2 => cs[1] # "0")

\* out is MM:SS for the whole number of seconds s.
IsMinutesSeconds(out, s) ==
    /\ Len(out) >= 5
    /\ out[Len(out) - 2] = ":"
    /\ LET mm == SubSeq(out, 1, Len(out) - 3)
           ss == SubSeq(out, Len(out) - 1, Len(out))
       IN  /\ TwoDigitPadded(mm) /\ AllDigits(ss)
           /\ NumberOf(mm) = s \div 60
           /\ NumberOf(ss) = s % 60

\* out is HH:MM:SS for the whole number of seconds s.
IsHoursMinutesSeconds(out, s) ==
    /\ Len(out) >= 8
    /\ out[Len(out) - 2] = ":" /\ out[Len(out) - 5] = ":"
    /\ LET hh == SubSeq(out, 1, Len(out) - 6)
           mm == SubSeq(out, Len(out) - 4, Len(out) - 3)
           ss == SubSeq(out, Len(out) - 1, Len(out))
       IN  /\ TwoDigitPadded(hh) /\ AllDigits(mm) /\ AllDigits(ss)
           /\ NumberOf(hh) = s \div 3600
           /\ NumberOf(mm) = (s % 3600) \div 60 /\ NumberOf(mm) \in 0..59
           /\ NumberOf(ss) = s % 60 /\ NumberOf(ss) \in 0..59

\* The call formatted a non-negative whole number of seconds.
FormatsWholeSeconds ==
    /\ call.fn \in {"format_timestamp", "format_timestamp_long"}
    /\ call.seconds >= 0 /\ call.seconds % TicksPerSecond = 0
SecondsFormatted == call.seconds \div TicksPerSecond

\* C13: for a non-negative whole number of seconds, format_timestamp writes
\* MM:SS padded to two digits, and format_timestamp_long writes the same below
\* one hour and HH:MM:SS from one hour on; 65 is 01:05, 5 is 00:05, 3661 is
\* 01:01:01.
C13_TimestampFormats ==
    FormatsWholeSeconds =>
        /\ call.fn = "format_timestamp" =>
                /\ IsMinutesSeconds(call.out, SecondsFormatted)
                /\ SecondsFormatted = 65 => call.out = <<"0", "1", ":", "0", "5">>
                /\ SecondsFormatted = 5 => call.out = <<"0", "0", ":", "0", "5">>
        /\ call.fn = "format_timestamp_long" =>
                /\ SecondsFormatted < 3600 => IsMinutesSeconds(call.out, SecondsFormatted)
                /\ SecondsFormatted < 3600 => Len(call.out) = 5
                /\ SecondsFormatted >= 3600 => IsHoursMinutesSeconds(call.out, SecondsFormatted)
                /\ SecondsFormatted = 65 => call.out = <<"0", "1", ":", "0", "5">>
                /\ SecondsFormatted = 3661
                        => call.out = <<"0", "1", ":", "0", "1", ":", "0", "1">>

C13_Witness ==
    /\ call.fn = "format_timestamp_long" /\ FormatsWholeSeconds
    /\ SecondsFormatted = 360000
    /\ call.out = <<"1", "0", "0", ":", "0", "0", ":", "0", "0">>

\* The run has got past the Transcriber.
Transcribed == mode = "app" /\ Len(log) >= 2 /\ log[2] = StageOk("transcribe")

\* A video or a frame image on disk.
IsVideoOrFrame(f) == f.content.k \in {"video", "png"}

\* C14: once transcription has succeeded the extracted audio file is gone, and
\* it is gone before the Analyzer is called; no step of the app removes or
\* rewrites a video or a frame image, so the video and the frames of the
\* stored results are there when the results are displayed and exported.
C14_AudioRemovedVideoAndFramesKept ==
    /\ [](/\ Transcribed => (local.audio_path # None /\ ~Exists(files, local.audio_path))
          /\ (mode = "app" /\ pc \in {"analyze", "refine", "highlight", "store"}) => Transcribed
          /\ (mode = "app" /\ pc \in {"extract", "transcribe", "analyze", "refine", "highlight", "store"})
                => (Exists(files, local.video_path) /\ ContentOf(files, local.video_path).k = "video")
          /\ (mode = "app" /\ session.results # None) =>
                /\ Exists(files, session.results.video_path)
                /\ ContentOf(files, session.results.video_path).k = "video"
                /\ \A i \in DOMAIN session.results.frames :
                      /\ Exists(files, session.results.frames[i].img_path)
                      /\ ContentOf(files, session.results.frames[i].img_path).k = "png")
    /\ [][mode = "app" => \A f \in files : IsVideoOrFrame(f) => f \in files']_vars

C14_Witness ==
    /\ ExportsShown
    /\ log = Append(AllStagesOk, StageOk("store"))
    /\ local.audio_path # None /\ ~Exists(files, local.audio_path)
    /\ Len(session.results.frames) = 2
    /\ \A i \in DOMAIN session.results.frames : Exists(files, session.results.frames[i].img_path)
    /\ Exists(files, session.results.video_path)

\* C15: whenever capture_frame_at_timestamp asks the decoder for a frame of a
\* video of duration d > 0, the time asked for is min(max(0, ts), d - epsilon)
\* and lies in [0, d).
C15_DecoderTimeWithinVideo ==
    (call.fn = "capture_frame_at_timestamp" /\ call.out.asked # <<>>) =>
        LET d == ContentOf(call.before, call.video_path).duration
            asked == call.out.asked[1]
        IN  /\ d > 0
            /\ asked = Min2(Max2(0, call.timestamp_seconds), d - Epsilon)
            /\ 0 <= asked /\ asked < d

\* The highlights of the run's analysis whose timestamp converts to a number,
\* in the Analyzer's order, as times in ticks.
HasNumericTimestamp(h) == h.t = "obj" /\ "timestamp" \in DOMAIN h.o /\ IsNumeric(h.o["timestamp"])
NumericHighlightTimes ==
    LET hl == DictGet(local.summary_data, "timestamped_highlights", Lst(<<>>))
        numeric == IF hl.t = "list" THEN SelectSeq(hl.l, HasNumericTimestamp) ELSE <<>>
    IN  [i \in 1..Len(numeric) |-> FloatTicks(numeric[i].o["timestamp"])]

\* The run is past the Highlighter stage, which did not fail.
Highlighted == mode = "app" /\ Len(log) >= 5 /\ log[5] = StageOk("highlight")

\* C16: in a run the Highlighter is invoked at most once, and only with the
\* toggle on and at least one numeric highlight timestamp; it is then given
\* the first 6 numeric timestamps in the Analyzer's order; without an
\* invocation the run's frames are the empty sequence.
C16_HighlighterGatedAndCapped ==
    (mode = "app" /\ pc \in {"extract", "transcribe", "analyze", "refine", "highlight", "store",
                              "display", "idle"}) =>
        /\ Len(local.captures) <= 1
        /\ local.captures # <<>> =>
                /\ Highlighted
                /\ widgets.capture_visual
                /\ NumericHighlightTimes # <<>>
                /\ Len(local.captures[1]) <= 6
                /\ Len(local.captures[1]) = Min2(6, Len(NumericHighlightTimes))
                /\ \A i \in DOMAIN local.captures[1] : local.captures[1][i] = NumericHighlightTimes[i]
        /\ local.captures = <<>> => local.frames_data = <<>>
        /\ (Highlighted /\ widgets.capture_visual /\ NumericHighlightTimes # <<>>)
                => local.captures # <<>>

C16_Witness ==
    /\ Highlighted /\ pc = "store"
    /\ Len(NumericHighlightTimes) = 7
    /\ local.captures = <<[i \in 1..6 |-> <<0, 1, 1, 2, 3, 4>>[i] * TicksPerSecond]>>

\* int(ts) of a time in ticks: the whole seconds, truncated towards zero.
WholeSecond(ts) ==
    IF ts >= 0 THEN ts \div TicksPerSecond ELSE 0 - ((0 - ts) \div TicksPerSecond)

\* The frame image files a capture_key_frames call has written.
FramesWritten == {f \in files \ call.before : f.content.k = "png"}

\* C17: the Frames of one capture_key_frames call have pairwise distinct image
\* paths, each named from the index of its timestamp in the request and the
\* timestamp's whole second, so every Frame has its own file, also when two
\* timestamps are equal or fall in the same second.
C17_FramePathsDistinct ==
    /\ IsCapture =>
            /\ \A j, k \in DOMAIN call.out.value :
                  j # k => call.out.value[j].img_path # call.out.value[k].img_path
            /\ \A j \in DOMAIN call.out.value :
                  \E i \in DOMAIN call.timestamps :
                     /\ call.timestamps[i] = call.out.value[j].ts
                     /\ call.out.value[j].img_path.name
                          = <<"frame_", ToString(i - 1), "_",
                              ToString(WholeSecond(call.timestamps[i])), "s", ".", "p", "n", "g">>
            /\ Cardinality(FramesWritten) = Len(call.out.value)
            /\ \A j \in DOMAIN call.out.value :
                  /\ Exists(files, call.out.value[j].img_path)
                  /\ ContentOf(files, call.out.value[j].img_path).at = call.out.value[j].at
    /\ mode = "app" =>
            \A j, k \in DOMAIN local.frames_data :
                j # k => local.frames_data[j].img_path # local.frames_data[k].img_path

C17_Witness ==
    /\ IsCapture /\ call.video_path = GoodVideo
    /\ call.timestamps = <<TicksPerSecond \div 2, TicksPerSecond \div 2>>
    /\ Len(call.out.value) = 2
    /\ Cardinality(FramesWritten) = 2
    /\ call.out.value[1].img_path.name = <<"frame_", "0", "_", "0", "s", ".", "p", "n", "g">>
    /\ call.out.value[2].img_path.name = <<"frame_", "1", "_", "0", "s", ".", "p", "n", "g">>

====
